---- MODULE Spec2Model ----
(***************************************************************************)
(* Model of the authenticated client of the jet merchant-API library       *)
(* (src/src/client.rs): the credential slot Mutex<RefCell<Option<Token>>>, *)
(* with_token, get_token, request and request_no_content, run by several   *)
(* caller threads against a transport that may answer anything.            *)
(*                                                                         *)
(* Time is counted in minutes.  A response body is a sequence of text      *)
(* pieces; a JSON object is the sequence of its keys and values.           *)
(***************************************************************************)
EXTENDS Integers, Sequences, FiniteSets, TLC

\* ------------------------------------------------------------------ bounds
\* The clock runs from 0 to MaxNow minutes.
MaxNow == 3

\* The caller threads sharing one Client.
Threads == {"t1", "t2"}

\* ------------------------------------------------------- program constants
\* Duration::minutes(15) in with_token's guard.
SkewMinutes == 15

ENDPOINT == "https://merchant-api.jet.com/api"

\* ------------------------------------------------------------- input sets
\* expires_on values the token endpoint may answer, as wire text.
ExpiryTexts == {"00:14", "00:16"}

\* id_token values the token endpoint may answer; BadIdToken holds a line
\* break, which no HTTP header value may hold.
IdTokens == {"abc", "xyz"}
BadIdToken == "a\nb"

\* Status codes a response may carry, on both sides of [200,300).
Statuses == {199, 200, 299, 300}

\* The paths callers ask for.
Paths == {"/orders/1/acknowledge"}

Methods == {"PUT"}

\* The marker of a byte sequence that is not UTF-8 text.
NonUtf8 == "\\xFF"

TokenJson(id, e) == <<"id_token", id, "token_type", "Bearer", "expires_on", e>>

TokenBodies ==
  {TokenJson(id, e) : id \in IdTokens, e \in ExpiryTexts}
    \cup {TokenJson(BadIdToken, "00:16"), <<"id_token", "abc">>, <<NonUtf8>>}

DomainBodies == {<<"price", "9.5">>, <<"<html>">>, <<NonUtf8>>}

\* What the transport may do with a request (to the token endpoint or to a
\* domain path): fail to send it, or answer it.
NetErr(to) == [to |-> to, sent |-> FALSE, status |-> 0, body |-> <<>>]

Responses(to, bodies) ==
  {NetErr(to)}
    \cup {[to |-> to, sent |-> TRUE, status |-> s, body |-> b] :
            s \in Statuses, b \in bodies}

\* --------------------------------------------------------- pure functions
\* chrono's parse of an expires_on text: the minute it names, or -1.
ParseInstant(s) ==
  IF s = "00:14" THEN 14
  ELSE IF s = "00:16" THEN 16
  ELSE -1

\* Response::read_to_string: the body as text, or no text when it is not UTF-8.
read_to_string(body) ==
  IF \E i \in 1..Len(body) : body[i] = NonUtf8 THEN <<>> ELSE <<body>>

\* serde's parse of a body as a Token: all three fields, a readable instant.
ParseToken(body) ==
  IF /\ Len(body) = 6
     /\ body[1] = "id_token"
     /\ body[3] = "token_type"
     /\ body[5] = "expires_on"
     /\ ParseInstant(body[6]) >= 0
  THEN <<[id_token |-> body[2], token_type |-> body[4],
          expires_on |-> ParseInstant(body[6])]>>
  ELSE <<>>

\* serde's parse of a body as the caller's type T (a one-field record).
ParseValue(body) ==
  IF Len(body) = 2 /\ body[1] = "price" THEN <<body[2]>> ELSE <<>>

\* StatusCode::is_success.
is_success(status) == status >= 200 /\ status < 300

\* The values of Result<_, Error>.
Ok(v) == [tag |-> "Ok", path |-> "", status |-> 0, body |-> <<>>, val |-> v]
Err(tag, path, status, body) ==
  [tag |-> tag, path |-> path, status |-> status, body |-> body, val |-> <<>>]
IsOk(r) == r.tag = "Ok"

\* The guard of with_token's first match arm.
FreshAlways(tok, n) == TRUE
FreshStrict(tok, n) == tok.expires_on - SkewMinutes > n
FreshNever(tok, n) == FALSE
Fresh(tok, n) == tok.expires_on - SkewMinutes >= n

\* Option::replace on the slot.
replace(slot, tok) == <<tok>>

\* What with_token leaves in the slot when get_token fails.
slotClearedOnError(slot) == <<>>
slotOnError(slot) == slot

\* get_token's outcome for the transport's answer to POST /token.
get_tokenIgnoresStatus(r) ==
  IF ~r.sent THEN Err("Http", "", 0, <<"send">>)
  ELSE IF ParseToken(r.body) = <<>> THEN Err("Http", "", 0, <<"decode">>)
  ELSE Ok(ParseToken(r.body))
get_token(r) ==
  IF ~r.sent THEN Err("Http", "", 0, <<"send">>)
  ELSE IF ~is_success(r.status)
    THEN IF read_to_string(r.body) = <<>>
           THEN Err("Io", "", 0, <<"read">>)
           ELSE Err("GetTokenRequest", "", r.status, read_to_string(r.body)[1])
  ELSE IF read_to_string(r.body) = <<>> \/ ParseToken(r.body) = <<>>
    THEN Err("Http", "", 0, <<"decode">>)
  ELSE Ok(ParseToken(r.body))

\* Authorization::bearer: no header for a token holding a control character.
bearerUnchecked(id) == <<"Bearer", id>>
bearer(id) == IF id = BadIdToken THEN <<>> ELSE <<"Bearer", id>>

\* request's reading of the transport's answer to the domain request.
request_result(path, r) ==
  IF ~r.sent THEN Err("Http", "", 0, <<"send">>)
  ELSE IF ~is_success(r.status)
    THEN IF read_to_string(r.body) = <<>>
           THEN Err("Io", "", 0, <<"read">>)
           ELSE Err("Request", path, r.status, read_to_string(r.body)[1])
  ELSE IF read_to_string(r.body) = <<>> \/ ParseValue(r.body) = <<>>
    THEN Err("Http", "", 0, <<"decode">>)
  ELSE Ok(ParseValue(r.body))

\* request_no_content's reading of the same answer.
no_content_parses(path, r) == request_result(path, r)
request_no_content_result(path, r) ==
  IF ~r.sent THEN Err("Http", "", 0, <<"send">>)
  ELSE IF ~is_success(r.status)
    THEN IF read_to_string(r.body) = <<>>
           THEN Err("Io", "", 0, <<"read">>)
           ELSE Err("Request", path, r.status, read_to_string(r.body)[1])
  ELSE Ok(<<>>)

\* ------------------------------------------------------------------ state
VARIABLES
  now,         \* Utc::now(), in minutes
  token,       \* Client.token's slot: <<>> (None) or <<tok>> (Some)
  lock,        \* the threads holding Client.token's mutex
  last_token,  \* the id_token the latest with_token closure was given
  pc,          \* each thread's position
  op,          \* each thread's call: kind, method, path
  arg,         \* the token the thread's closure borrows while it runs
  req,         \* the RequestBuilder the thread holds, until send takes it
  resp,        \* the response the thread is reading
  result,      \* what the thread's call returned
  steps        \* the steps of the thread's call so far

vars == <<now, token, lock, last_token, pc, op, arg, req, resp, result, steps>>

\* A call of request / request_no_content: its arguments, and the public
\* operation it was made by (caller, with the sku or order id and the shipment
\* date it was given), when it was made by one.
NoOp == [kind |-> "", method |-> "", path |-> "", caller |-> "", id |-> "",
         date |-> <<>>]

Init ==
  /\ now = 0
  /\ token = <<>>
  /\ lock = {}
  /\ last_token = <<>>
  /\ pc = [t \in Threads |-> "idle"]
  /\ op = [t \in Threads |-> NoOp]
  /\ arg = [t \in Threads |-> <<>>]
  /\ req = [t \in Threads |-> <<>>]
  /\ resp = [t \in Threads |-> <<>>]
  /\ result = [t \in Threads |-> <<>>]
  /\ steps = [t \in Threads |-> <<>>]

\* Mutex::lock: the calling thread goes on only while nobody holds the mutex.
can_lockAlways(held) == TRUE
can_lock(held) == held = {}

\* The MutexGuard's drop when with_token returns.
unlockNever(held, t) == held
unlock(held, t) == held \ {t}

\* The request the closure of request / request_no_content builds.
RequestBasic(o, auth) ==
  [method |-> o.method, url |-> <<ENDPOINT, o.path>>,
   authorization |-> <<"Basic", auth[2]>>, payload |-> ""]
Request(o, auth) ==
  [method |-> o.method, url |-> <<ENDPOINT, o.path>>, authorization |-> auth,
   payload |-> ""]

\* The caller's build callback f: it attaches a payload or leaves the request.
Payloads == {"json"}
apply_f(r, payload) == [r EXCEPT !.payload = payload]

Count(seq, x) == Cardinality({i \in 1..Len(seq) : seq[i] = x})

\* ---------------------------------------------------------------- actions
\* A thread enters request (kind "request") or request_no_content.
Enter(t, o) ==
  /\ pc[t] = "idle"
  /\ pc' = [pc EXCEPT ![t] = "lock"]
  /\ op' = [op EXCEPT ![t] = o]
  /\ UNCHANGED <<now, token, lock, last_token, arg, req, resp, result, steps>>

\* Some caller inside the crate calls request or request_no_content.
Call(t, kind, method, path) ==
  Enter(t, [NoOp EXCEPT !.kind = kind, !.method = method, !.path = path])

\* with_token: self.token.lock().
Lock(t) ==
  /\ pc[t] = "lock"
  /\ can_lock(lock)
  /\ lock' = lock \cup {t}
  /\ pc' = [pc EXCEPT ![t] = "match"]
  /\ steps' = [steps EXCEPT ![t] = Append(@, "lock")]
  /\ UNCHANGED <<now, token, last_token, op, arg, req, resp, result>>

\* with_token's first arm: the slot holds a fresh token, f(&token) is called.
MatchCached(t) ==
  /\ pc[t] = "match"
  /\ token # <<>>
  /\ Fresh(token[1], now)
  /\ arg' = [arg EXCEPT ![t] = token]
  /\ last_token' = <<token[1].id_token>>
  /\ pc' = [pc EXCEPT ![t] = "closure"]
  /\ steps' = [steps EXCEPT ![t] = Append(@, "closure")]
  /\ UNCHANGED <<now, token, lock, op, req, resp, result>>

\* with_token's second arm: get_token sends POST /token.
MatchRefresh(t) ==
  /\ pc[t] = "match"
  /\ ~(token # <<>> /\ Fresh(token[1], now))
  /\ pc' = [pc EXCEPT ![t] = "get_token"]
  /\ steps' = [steps EXCEPT ![t] = Append(@, "exchange")]
  /\ UNCHANGED <<now, token, lock, last_token, op, arg, req, resp, result>>

\* (A with_token that asks the token endpoint again after a failure.)
GetTokenRespondRetries(t, r) ==
  /\ pc[t] = "get_token"
  /\ resp' = [resp EXCEPT ![t] = <<r>>]
  /\ IF IsOk(get_token(r))
       THEN /\ token' = replace(token, get_token(r).val[1])
            /\ arg' = [arg EXCEPT ![t] = token']
            /\ last_token' = <<token'[1].id_token>>
            /\ pc' = [pc EXCEPT ![t] = "closure"]
            /\ steps' = [steps EXCEPT ![t] = Append(@, "closure")]
            /\ UNCHANGED <<lock, result>>
       ELSE /\ steps' = [steps EXCEPT ![t] = Append(@, "exchange")]
            /\ UNCHANGED <<token, arg, last_token, pc, lock, result>>
  /\ UNCHANGED <<now, op, req>>

\* The transport answers POST /token: get_token returns, and with_token either
\* returns its error (the guard drops) or replaces the slot and calls
\* f(&token.as_ref().unwrap()).
\* unwrap panics on an empty slot ("panic"), which replace never leaves.
GetTokenRespond(t, r) ==
  /\ pc[t] = "get_token"
  /\ resp' = [resp EXCEPT ![t] = <<r>>]
  /\ IF IsOk(get_token(r))
       THEN /\ token' = replace(token, get_token(r).val[1])
            /\ arg' = [arg EXCEPT ![t] = token']
            /\ last_token' = IF token' = <<>> THEN last_token
                             ELSE <<token'[1].id_token>>
            /\ pc' = [pc EXCEPT ![t] = IF token' = <<>> THEN "panic" ELSE "closure"]
            /\ steps' = [steps EXCEPT ![t] = Append(@, "closure")]
            /\ UNCHANGED <<lock, result>>
       ELSE /\ token' = slotOnError(token)
            /\ result' = [result EXCEPT ![t] = <<get_token(r)>>]
            /\ lock' = unlock(lock, t)
            /\ pc' = [pc EXCEPT ![t] = "done"]
            /\ UNCHANGED <<arg, last_token, steps>>
  /\ UNCHANGED <<now, op, req>>

\* The closure of request / request_no_content runs and with_token returns:
\* the request with its Authorization header, or InvalidBearerToken.
Closure(t) ==
  /\ pc[t] = "closure"
  /\ IF bearer(arg[t][1].id_token) = <<>>
       THEN /\ result' = [result EXCEPT ![t] = <<Err("InvalidBearerToken", "", 0, <<>>)>>]
            /\ pc' = [pc EXCEPT ![t] = "done"]
            /\ UNCHANGED req
       ELSE /\ req' = [req EXCEPT ![t] = <<Request(op[t], bearer(arg[t][1].id_token))>>]
            /\ pc' = [pc EXCEPT ![t] = "built"]
            /\ UNCHANGED result
  /\ lock' = unlock(lock, t)
  /\ arg' = [arg EXCEPT ![t] = <<>>]
  /\ resp' = [resp EXCEPT ![t] = <<>>]
  /\ UNCHANGED <<now, token, last_token, op, steps>>

\* (A request that sends before it applies the build callback.)
SendThenBuild(t, payload) ==
  /\ pc[t] = "built"
  /\ pc' = [pc EXCEPT ![t] = "sending"]
  /\ steps' = [steps EXCEPT ![t] = @ \o <<"send", "build">>]
  /\ UNCHANGED <<now, token, lock, last_token, op, arg, req, resp, result>>

\* req = f(req); req.send(): the domain request leaves.
Send(t, payload) ==
  /\ pc[t] = "built"
  /\ req' = [req EXCEPT ![t] = <<apply_f(@[1], payload)>>]
  /\ pc' = [pc EXCEPT ![t] = "sending"]
  /\ steps' = [steps EXCEPT ![t] = @ \o <<"build", "send">>]
  /\ UNCHANGED <<now, token, lock, last_token, op, arg, resp, result>>

\* (A request that drops the cached credential when its answer is no success.)
RespondInvalidates(t, r) ==
  /\ pc[t] = "sending"
  /\ resp' = [resp EXCEPT ![t] = <<r>>]
  /\ result' = [result EXCEPT ![t] =
       IF op[t].kind = "request"
         THEN <<request_result(op[t].path, r)>>
         ELSE <<request_no_content_result(op[t].path, r)>>]
  /\ token' = IF r.sent /\ ~is_success(r.status) THEN <<>> ELSE token
  /\ req' = [req EXCEPT ![t] = <<>>]
  /\ pc' = [pc EXCEPT ![t] = "done"]
  /\ steps' = [steps EXCEPT ![t] = Append(@, "response")]
  /\ UNCHANGED <<now, lock, last_token, op, arg>>

\* The transport answers the domain request and the call returns.
Respond(t, r) ==
  /\ pc[t] = "sending"
  /\ resp' = [resp EXCEPT ![t] = <<r>>]
  /\ result' = [result EXCEPT ![t] =
       IF op[t].kind = "request"
         THEN <<request_result(op[t].path, r)>>
         ELSE <<request_no_content_result(op[t].path, r)>>]
  /\ req' = [req EXCEPT ![t] = <<>>]
  /\ pc' = [pc EXCEPT ![t] = "done"]
  /\ steps' = [steps EXCEPT ![t] = Append(@, "response")]
  /\ UNCHANGED <<now, token, lock, last_token, op, arg>>

\* The caller takes the result; the call's locals are gone.
Return(t) ==
  /\ pc[t] = "done"
  /\ pc' = [pc EXCEPT ![t] = "idle"]
  /\ op' = [op EXCEPT ![t] = NoOp]
  /\ arg' = [arg EXCEPT ![t] = <<>>]
  /\ req' = [req EXCEPT ![t] = <<>>]
  /\ resp' = [resp EXCEPT ![t] = <<>>]
  /\ result' = [result EXCEPT ![t] = <<>>]
  /\ steps' = [steps EXCEPT ![t] = <<>>]
  /\ UNCHANGED <<now, token, lock, last_token>>

\* A minute passes.
Tick ==
  /\ now < MaxNow
  /\ now' = now + 1
  /\ UNCHANGED <<token, lock, last_token, pc, op, arg, req, resp, result, steps>>

Next ==
  \/ \E t \in Threads, k \in {"request", "request_no_content"},
        m \in Methods, p \in Paths : Call(t, k, m, p)
  \/ \E t \in Threads : Lock(t)
  \/ \E t \in Threads : MatchCached(t)
  \/ \E t \in Threads : MatchRefresh(t)
  \/ \E t \in Threads, r \in Responses("token", TokenBodies) : GetTokenRespond(t, r)
  \/ \E t \in Threads : Closure(t)
  \/ \E t \in Threads, f \in Payloads : Send(t, f)
  \/ \E t \in Threads, r \in Responses("domain", DomainBodies) : Respond(t, r)
  \/ \E t \in Threads : Return(t)
  \/ Tick

Spec == Init /\ [][Next]_vars

\* ------------------------------------------------- the public operations
\* The skus and order ids callers name.
Skus == {"sku1", "sku2"}
OrderIds == {"o1"}

\* The shipment dates callers give: DateTime<Utc> values, field by field.
Instant(y, mo, d, h, mi, sec, ns) ==
  [year |-> y, month |-> mo, day |-> d, hour |-> h, minute |-> mi,
   second |-> sec, nanos |-> ns]

Instants ==
  {Instant(y, mo, d, h, mi, sec, ns) :
     y \in {5, 9999}, mo \in {3, 12}, d \in {5, 31}, h \in {0, 23},
     mi \in {7, 59}, sec \in {9, 30}, ns \in {0, 999999999}}
    \cup {Instant(2021, 3, 5, 10, 15, 30, ns) : ns \in {0, 123456789}}

\* One decimal digit as text.
Digit(d) == SubSeq("0123456789", d + 1, d + 1)

\* chrono's zero-padded decimal of n in w digits (%Y, %m, %d, %H, %M, %S).
RECURSIVE Pad(_, _)
Pad(n, w) == IF w = 0 THEN "" ELSE Pad(n \div 10, w - 1) \o Digit(n % 10)

\* utils::serialize_datetime: value.format("%Y-%m-%dT%H:%M:%S.0000000-00:00").
serialize_datetimeFraction(value) ==
  Pad(value.year, 4) \o "-" \o Pad(value.month, 2) \o "-" \o Pad(value.day, 2)
    \o "T" \o Pad(value.hour, 2) \o ":" \o Pad(value.minute, 2) \o ":"
    \o Pad(value.second, 2) \o "." \o Pad(value.nanos \div 100, 7) \o "-00:00"
serialize_datetime(value) ==
  Pad(value.year, 4) \o "-" \o Pad(value.month, 2) \o "-" \o Pad(value.day, 2)
    \o "T" \o Pad(value.hour, 2) \o ":" \o Pad(value.minute, 2) \o ":"
    \o Pad(value.second, 2) \o ".0000000-00:00"

\* products.rs: the four operations on a sku.
update_inventory(t, sku_id) ==
  Enter(t, [kind |-> "request", method |-> "PUT",
            path |-> "/merchant-skus/" \o sku_id \o "/inventory",
            caller |-> "update_inventory", id |-> sku_id, date |-> <<>>])

get_inventory(t, sku_id) ==
  Enter(t, [kind |-> "request", method |-> "GET",
            path |-> "/merchant-skus/" \o sku_id \o "/inventory",
            caller |-> "get_inventory", id |-> sku_id, date |-> <<>>])

update_price(t, sku_id) ==
  Enter(t, [kind |-> "request", method |-> "PUT",
            path |-> "/merchant-skus/" \o sku_id \o "/price",
            caller |-> "update_price", id |-> sku_id, date |-> <<>>])

get_price(t, sku_id) ==
  Enter(t, [kind |-> "request", method |-> "GET",
            path |-> "/merchant-skus/" \o sku_id \o "/inventory",
            caller |-> "get_price", id |-> sku_id, date |-> <<>>])

\* orders.rs: ship_order, for a ShipOrder with one shipment dated `date`.
ship_order(t, order_id, date) ==
  Enter(t, [kind |-> "request_no_content", method |-> "PUT",
            path |-> "/orders/" \o order_id \o "/shipped",
            caller |-> "ship_order", id |-> order_id, date |-> <<date>>])

\* What the operation's build callback attaches: req.json(..) of its data
\* (for ship_order, the serialized response_shipment_date), or nothing.
callback_payload(o) ==
  IF o.caller = "ship_order" THEN serialize_datetime(o.date[1])
  ELSE IF o.caller \in {"update_inventory", "update_price"} THEN "json"
  ELSE ""

\* One thread using the client through its public operations.
ApiThread == "t1"

NextApi ==
  \/ \E sku \in Skus : update_inventory(ApiThread, sku)
  \/ \E sku \in Skus : get_inventory(ApiThread, sku)
  \/ \E sku \in Skus : update_price(ApiThread, sku)
  \/ \E sku \in Skus : get_price(ApiThread, sku)
  \/ \E o \in OrderIds, d \in Instants : ship_order(ApiThread, o, d)
  \/ Lock(ApiThread)
  \/ MatchCached(ApiThread)
  \/ MatchRefresh(ApiThread)
  \/ \E r \in Responses("token", TokenBodies) : GetTokenRespond(ApiThread, r)
  \/ Closure(ApiThread)
  \/ Send(ApiThread, callback_payload(op[ApiThread]))
  \/ \E r \in Responses("domain", DomainBodies) : Respond(ApiThread, r)
  \/ Return(ApiThread)
  \/ Tick

SpecApi == Init /\ [][NextApi]_vars

\* ------------------------------------------------- vocabulary of the claims
\* The threads inside with_token's critical section.
InCriticalSection == {t \in Threads : pc[t] \in {"match", "get_token", "closure"}}

\* with_token calls f at the step that takes the thread to "closure".
Invoked(t) == pc[t] # "closure" /\ pc'[t] = "closure"

\* with_token decides between its two arms at the step that leaves "match".
Decides(t) == pc[t] = "match" /\ pc'[t] # "match"

\* The number of token exchanges the thread's call has started.
Exchanges(t) == Count(steps[t], "exchange")

\* The specification's validity window: now < expiry - 15 minutes.
Usable(tok, n) == n < tok.expires_on - SkewMinutes

\* A status in [200,300).
Is2xx(status) == status \in 200..299

\* ------------------------------------------------------------------- C1
\* C1 (credential reuse): when with_token decides with a cached credential
\* that is inside its validity window, it starts no token exchange, calls the
\* closure with the cached credential, leaves the slot alone, and the closure
\* sees the id_token that the previous with_token closure saw.
C1_CredentialReuse ==
  [][\A t \in Threads :
       (Decides(t) /\ token # <<>> /\ Usable(token[1], now))
         => /\ pc'[t] = "closure"
            /\ Count(steps'[t], "exchange") = 0
            /\ arg'[t] = token
            /\ token' = token
            /\ last_token # <<>>
            /\ arg'[t][1].id_token = last_token[1]]_vars

\* A second call reuses, inside the window, the credential whose id_token an
\* earlier call (which exchanged it) put into its request.
C1_Witness ==
  \E t, u \in Threads :
    /\ pc[t] = "closure" /\ steps[t] = <<"lock", "closure">>
    /\ Usable(arg[t][1], now)
    /\ pc[u] = "sending" /\ Exchanges(u) = 1
    /\ req[u][1].authorization = <<"Bearer", arg[t][1].id_token>>

C3_StrictReuse ==
  [][\A t \in Threads :
       Decides(t) =>
         (pc'[t] = "closure" <=> (token # <<>> /\ Usable(token[1], now)))]_vars

\* C3 amended: with_token calls the closure with the cached credential,
\* without an exchange, exactly when one is present and now <= expiry - 15
\* minutes; in every other case it starts a token exchange.
C3_ReuseDecision ==
  [][\A t \in Threads :
       Decides(t) =>
         IF token # <<>> /\ now <= token[1].expires_on - SkewMinutes
           THEN pc'[t] = "closure" /\ arg'[t] = token
                  /\ Count(steps'[t], "exchange") = 0
           ELSE pc'[t] = "get_token" /\ Count(steps'[t], "exchange") = 1]_vars

\* The closure runs on a cached credential at now = expiry - 15 minutes.
C3_Witness ==
  \E t \in Threads :
    /\ pc[t] = "closure" /\ steps[t] = <<"lock", "closure">>
    /\ now = arg[t][1].expires_on - SkewMinutes

\* ------------------------------------------------------------------- C4
\* C4 as stated: whenever the closure is called, now < expiry - 15 minutes
\* holds for the credential it is given.
C4_AlwaysUsable ==
  [][\A t \in Threads :
       Invoked(t) => Usable(arg'[t][1], now')]_vars

\* C4 amended: whenever the closure is called with a cached credential (the
\* call made no token exchange), now <= expiry - 15 minutes holds for it at
\* that moment.
C4_CachedUsable ==
  [][\A t \in Threads :
       (Invoked(t) /\ Count(steps'[t], "exchange") = 0)
         => now' <= arg'[t][1].expires_on - SkewMinutes]_vars

\* The closure runs on a cached credential after the clock has moved.
C4_Witness ==
  \E t \in Threads :
    /\ pc[t] = "closure" /\ Exchanges(t) = 0
    /\ now > 0
    /\ now <= arg[t][1].expires_on - SkewMinutes

\* ------------------------------------------------------------------- C5
\* C5 (mutual exclusion): at most one thread is between with_token's lock and
\* its return, that thread is the one holder of the mutex, and the credential
\* a running closure holds is the whole credential of the slot.
C5_MutualExclusion ==
  /\ Cardinality(InCriticalSection) <= 1
  /\ Cardinality(lock) <= 1
  /\ \A t \in InCriticalSection : lock = {t}
  /\ \A t \in Threads : pc[t] = "closure" => arg[t] = token

\* One thread's closure holds a newly exchanged credential while the other
\* thread waits for the mutex.
C5_Witness ==
  \E t, u \in Threads :
    /\ pc[t] = "closure" /\ Exchanges(t) = 1 /\ lock = {t}
    /\ pc[u] = "lock"

\* ------------------------------------------------------------------- C6
\* C6 (serialized refresh): at most one POST /token is in flight, and the
\* thread waiting for its answer holds the credential mutex.
C6_SerializedRefresh ==
  /\ Cardinality({t \in Threads : pc[t] = "get_token"}) <= 1
  /\ \A t \in Threads : pc[t] = "get_token" => lock = {t}

\* A refresh of a stale credential is in flight while the other thread, which
\* will need a refresh too, waits for the mutex.
C6_Witness ==
  \E t, u \in Threads :
    /\ pc[t] = "get_token" /\ pc[u] = "lock"
    /\ token # <<>> /\ ~Usable(token[1], now)

\* ------------------------------------------------------------------- C7
\* C7 (send outside the lock): a thread that has left with_token with its
\* request, or is sending it, or has its answer, does not hold the credential
\* mutex; and while a thread is sending, a thread waiting for the mutex can
\* take it unless some third thread is inside with_token.
C7_SendOutsideLock ==
  /\ \A t \in Threads : pc[t] \in {"built", "sending", "done"} => t \notin lock
  /\ \A t, u \in Threads :
       (pc[t] = "sending" /\ pc[u] = "lock" /\ InCriticalSection = {})
         => ENABLED Lock(u)

\* Two threads are sending domain requests that carry the same id_token.
C7_Witness ==
  \E t, u \in Threads :
    /\ t # u
    /\ pc[t] = "sending" /\ pc[u] = "sending"
    /\ req[t][1].authorization = req[u][1].authorization

\* ------------------------------------------------------------------- C8
\* A body that can be read as text.
IsText(body) == \A i \in 1..Len(body) : body[i] # NonUtf8

\* The typed error of a non-success answer r to thread t's call.
StatusError(t, r) ==
  IF r.to = "token"
    THEN Err("GetTokenRequest", "", r.status, r.body)
    ELSE Err("Request", op[t].path, r.status, r.body)

\* What parsing a success answer r as its success value gives.
Parsed(r) == IF r.to = "token" THEN ParseToken(r.body) ELSE ParseValue(r.body)

\* C8 as stated, for get_token and request: an answer with a status in
\* [200,300) has its body parsed as the success value; an answer with any
\* other status makes the call return GetTokenRequest / Request with exactly
\* that status and body.
C8_StatusBranching ==
  \A t \in Threads :
    (pc[t] = "done" /\ resp[t] # <<>> /\ resp[t][1].sent
       /\ (resp[t][1].to = "token" \/ op[t].kind = "request"))
      => IF Is2xx(resp[t][1].status)
           THEN \/ result[t] = <<Ok(Parsed(resp[t][1]))>>
                \/ Parsed(resp[t][1]) = <<>> /\ result[t][1].tag = "Http"
           ELSE result[t] = <<StatusError(t, resp[t][1])>>

\* C8 amended: an answer with a status outside [200,300) makes the call return
\* GetTokenRequest / Request with exactly that status and body when the body
\* can be read as text, and Io when it cannot, and is never parsed as a
\* success value; an answer with a status in [200,300) has its body parsed by
\* get_token and request (a body that does not parse is an Http error) and
\* makes request_no_content return unit.
C8_StatusBranchingText ==
  /\ \A t \in Threads :
       (pc[t] = "done" /\ resp[t] # <<>> /\ resp[t][1].sent)
         => IF ~Is2xx(resp[t][1].status)
              THEN IF IsText(resp[t][1].body)
                     THEN result[t] = <<StatusError(t, resp[t][1])>>
                     ELSE result[t][1].tag = "Io"
            ELSE IF resp[t][1].to = "domain" /\ op[t].kind = "request_no_content"
              THEN result[t] = <<Ok(<<>>)>>
            ELSE IF Parsed(resp[t][1]) # <<>>
              THEN resp[t][1].to = "domain" /\ result[t] = <<Ok(Parsed(resp[t][1]))>>
            ELSE result[t][1].tag = "Http"
  /\ \A t \in Threads :
       (pc[t] = "closure" /\ resp[t] # <<>>)
         => /\ resp[t][1].sent /\ Is2xx(resp[t][1].status)
            /\ arg[t] # <<>> /\ arg[t] = Parsed(resp[t][1])

\* A domain request was answered 300 with a text body and the call returned
\* the Request error.
C8_Witness ==
  \E t \in Threads :
    /\ pc[t] = "done" /\ resp[t] # <<>>
    /\ resp[t][1].to = "domain" /\ resp[t][1].status = 300
    /\ IsText(resp[t][1].body)
    /\ result[t][1].tag = "Request"

\* ------------------------------------------------------------------- C9
\* A token exchange that did not give a credential: no answer, a status
\* outside [200,300), or a body that is no Token.
ExchangeFailed(r) == ~r.sent \/ ~Is2xx(r.status) \/ ParseToken(r.body) = <<>>

\* C9 (failed exchange): when the answer to POST /token gives no credential,
\* with_token returns an error with the slot as it was, the closure not
\* called, no request built and the mutex released; the slot changes only at
\* a successful exchange, to the credential it returned.
C9_FailedExchange ==
  /\ [][\A t \in Threads :
          (pc[t] = "get_token" /\ pc'[t] # "get_token")
            => IF ExchangeFailed(resp'[t][1])
                 THEN /\ token' = token
                      /\ pc'[t] = "done"
                      /\ ~IsOk(result'[t][1])
                      /\ Count(steps'[t], "closure") = 0
                      /\ req'[t] = <<>>
                      /\ t \notin lock'
                 ELSE /\ token' = ParseToken(resp'[t][1].body)
                      /\ pc'[t] = "closure"]_vars
  /\ [][token' # token
          => \E t \in Threads :
               pc[t] = "get_token" /\ ~ExchangeFailed(resp'[t][1])]_vars
  /\ [](\A t \in Threads :
          (pc[t] = "done" /\ resp[t] # <<>> /\ resp[t][1].to = "token")
            => /\ steps[t] = <<"lock", "exchange">>
               /\ ~IsOk(result[t][1]))

\* A refresh failed and the previous, stale credential is still in the slot.
C9_Witness ==
  \E t \in Threads :
    /\ pc[t] = "done" /\ resp[t] # <<>> /\ resp[t][1].to = "token"
    /\ token # <<>> /\ ~Usable(token[1], now)

\* ------------------------------------------------------------------ C10
\* C10 (no-content variant): a request call and a request_no_content call
\* that were given the same method and path, made as many token exchanges and
\* read the same last answer went through the same steps; they returned the
\* same error, unless that answer was a domain answer with a status in
\* [200,300): then request_no_content returned unit whatever the body, and
\* request returned the parsed body or a decode error.
C10_NoContentEquivalence ==
  \A t, u \in Threads :
    (/\ pc[t] = "done" /\ pc[u] = "done"
     /\ op[t].kind = "request" /\ op[u].kind = "request_no_content"
     /\ op[t].method = op[u].method /\ op[t].path = op[u].path
     /\ Exchanges(t) = Exchanges(u)
     /\ resp[t] = resp[u])
      => /\ steps[t] = steps[u]
         /\ IF resp[u] # <<>> /\ resp[u][1].to = "domain"
                 /\ resp[u][1].sent /\ Is2xx(resp[u][1].status)
              THEN /\ result[u] = <<Ok(<<>>)>>
                   /\ result[t] # result[u]
              ELSE /\ result[t] = result[u]
                   /\ ~IsOk(result[u][1])

\* Both variants read the same 2xx answer whose body is no JSON: request
\* failed to decode it, request_no_content returned unit.
C10_Witness ==
  \E t, u \in Threads :
    /\ pc[t] = "done" /\ pc[u] = "done"
    /\ op[t].kind = "request" /\ op[u].kind = "request_no_content"
    /\ resp[t] = resp[u] /\ resp[t] # <<>>
    /\ resp[t][1].to = "domain" /\ resp[t][1].status = 299
    /\ resp[t][1].body = <<"<html>">>
    /\ result[t][1].tag = "Http" /\ result[u] = <<Ok(<<>>)>>

\* ------------------------------------------------------------------ C11
\* A domain answer that the call cannot turn into its success value.
DomainFailed(kind, r) ==
  ~r.sent \/ ~Is2xx(r.status) \/ (kind = "request" /\ ParseValue(r.body) = <<>>)

\* C11 (no internal retry): a call starts at most one token exchange, runs its
\* closure at most once and sends at most one domain request; a failed token
\* exchange, an id_token that gives no header and a failed domain answer each
\* end the call at once with an error; and a returned result is never changed.
C11_NoRetry ==
  /\ [](\A t \in Threads :
          /\ Count(steps[t], "exchange") <= 1
          /\ Count(steps[t], "closure") <= 1
          /\ Count(steps[t], "send") <= 1
          /\ Count(steps[t], "response") <= 1)
  /\ [][\A t \in Threads :
          /\ (pc[t] = "get_token" /\ pc'[t] # "get_token"
                /\ ExchangeFailed(resp'[t][1]))
               => pc'[t] = "done" /\ ~IsOk(result'[t][1])
          /\ (pc[t] = "closure" /\ pc'[t] # "closure"
                /\ arg[t][1].id_token \notin IdTokens)
               => pc'[t] = "done" /\ result'[t][1].tag = "InvalidBearerToken"
          /\ (pc[t] = "sending" /\ pc'[t] # "sending")
               => /\ pc'[t] = "done"
                  /\ DomainFailed(op[t].kind, resp'[t][1]) => ~IsOk(result'[t][1])
          /\ pc[t] = "done"
               => \/ pc'[t] = "idle"
                  \/ /\ pc'[t] = "done"
                     /\ result'[t] = result[t]
                     /\ steps'[t] = steps[t]]_vars

\* A call that exchanged a token and sent its request got the answer 300 and
\* returned the Request error after one exchange and one send.
C11_Witness ==
  \E t \in Threads :
    /\ pc[t] = "done"
    /\ steps[t] = <<"lock", "exchange", "closure", "build", "send", "response">>
    /\ resp[t][1].status = 300
    /\ result[t][1].tag = "Request"

\* ------------------------------------------------------------------ C12
\* C12 (Bearer header): the request the closure builds carries Authorization:
\* Bearer <id_token> of the credential with_token handed out, which is the
\* slot's credential at that moment; the header is the same when the request
\* is sent; and while no token exchange has succeeded (the slot is empty) no
\* closure runs and no domain request exists, so on a fresh client POST /token
\* comes first.
C12_BearerHeader ==
  /\ [][\A t \in Threads :
          /\ (pc[t] = "closure" /\ pc'[t] = "built")
               => /\ arg[t] = token
                  /\ req'[t][1].authorization = <<"Bearer", token[1].id_token>>
                  /\ req'[t][1].url = <<ENDPOINT, op[t].path>>
                  /\ req'[t][1].method = op[t].method
          /\ (pc[t] = "built" /\ pc'[t] = "sending")
               => /\ req'[t][1].authorization = req[t][1].authorization
                  /\ req'[t][1].url = req[t][1].url]_vars
  /\ [](\A t \in Threads :
          /\ token = <<>> => pc[t] \notin {"closure", "built", "sending"}
          /\ pc[t] \in {"built", "sending"}
               => /\ req[t] # <<>>
                  /\ req[t][1].authorization[1] = "Bearer"
                  /\ req[t][1].authorization[2] \in IdTokens)

\* The first call on the client exchanged the token abc and is sending its
\* request with Bearer abc.
C12_Witness ==
  \E t \in Threads :
    /\ pc[t] = "sending"
    /\ steps[t] = <<"lock", "exchange", "closure", "build", "send">>
    /\ token # <<>> /\ token[1].id_token = "abc"
    /\ req[t][1].authorization = <<"Bearer", "abc">>
    /\ \A u \in Threads \ {t} : pc[u] = "idle"

\* ------------------------------------------------------------------ C13
\* C13 (product paths): the request that get_price(sku) sends is a GET to
\* {origin}/merchant-skus/{sku}/price, the path update_price(sku) PUTs to, and
\* get_inventory / update_inventory use {origin}/merchant-skus/{sku}/inventory.
C13_PricePath ==
  \A t \in Threads :
    pc[t] = "sending" =>
      /\ op[t].caller = "get_price"
           => /\ req[t][1].method = "GET"
              /\ req[t][1].url = <<ENDPOINT, "/merchant-skus/" \o op[t].id \o "/price">>
      /\ op[t].caller = "update_price"
           => /\ req[t][1].method = "PUT"
              /\ req[t][1].url = <<ENDPOINT, "/merchant-skus/" \o op[t].id \o "/price">>
      /\ op[t].caller = "get_inventory"
           => /\ req[t][1].method = "GET"
              /\ req[t][1].url = <<ENDPOINT, "/merchant-skus/" \o op[t].id \o "/inventory">>
      /\ op[t].caller = "update_inventory"
           => /\ req[t][1].method = "PUT"
              /\ req[t][1].url = <<ENDPOINT, "/merchant-skus/" \o op[t].id \o "/inventory">>

\* ------------------------------------------------------------------ C14
\* The value of one decimal digit, and of a run of digits.
DigitValue(c) ==
  CASE c = "0" -> 0 [] c = "1" -> 1 [] c = "2" -> 2 [] c = "3" -> 3
    [] c = "4" -> 4 [] c = "5" -> 5 [] c = "6" -> 6 [] c = "7" -> 7
    [] c = "8" -> 8 [] c = "9" -> 9 [] OTHER -> -100000

RECURSIVE Number(_)
Number(s) ==
  IF Len(s) = 0 THEN 0
  ELSE 10 * Number(SubSeq(s, 1, Len(s) - 1)) + DigitValue(SubSeq(s, Len(s), Len(s)))

\* C14 (shipment timestamp): the date that ship_order sends is 33 characters:
\* the instant's year in 4 digits, month, day, hour, minute and second in 2
\* digits each, separated as YYYY-MM-DDTHH:MM:SS, then .0000000-00:00 whatever
\* the instant's sub-second part; 2021-03-05 10:15:30 UTC is sent as
\* 2021-03-05T10:15:30.0000000-00:00.
C14_TimestampFormat ==
  \A t \in Threads :
    (pc[t] = "sending" /\ op[t].caller = "ship_order") =>
      LET s == req[t][1].payload
          v == op[t].date[1]
      IN /\ Len(s) = 33
         /\ Number(SubSeq(s, 1, 4)) = v.year
         /\ SubSeq(s, 5, 5) = "-"
         /\ Number(SubSeq(s, 6, 7)) = v.month
         /\ SubSeq(s, 8, 8) = "-"
         /\ Number(SubSeq(s, 9, 10)) = v.day
         /\ SubSeq(s, 11, 11) = "T"
         /\ Number(SubSeq(s, 12, 13)) = v.hour
         /\ SubSeq(s, 14, 14) = ":"
         /\ Number(SubSeq(s, 15, 16)) = v.minute
         /\ SubSeq(s, 17, 17) = ":"
         /\ Number(SubSeq(s, 18, 19)) = v.second
         /\ SubSeq(s, 20, 33) = ".0000000-00:00"
         /\ (v.year = 2021 /\ v.month = 3 /\ v.day = 5 /\ v.hour = 10
               /\ v.minute = 15 /\ v.second = 30)
              => s = "2021-03-05T10:15:30.0000000-00:00"

\* ship_order sends the date of 2021-03-05 10:15:30.123456789 UTC.
C14_Witness ==
  \E t \in Threads :
    /\ pc[t] = "sending" /\ op[t].caller = "ship_order"
    /\ op[t].date[1] = Instant(2021, 3, 5, 10, 15, 30, 123456789)
    /\ req[t][1].payload = "2021-03-05T10:15:30.0000000-00:00"

\* ------------------------------------------------------------------ C15
\* The steps of a whole call, with and without a token exchange.
FullSteps(t) ==
  IF Exchanges(t) > 0
    THEN <<"lock", "exchange", "closure", "build", "send", "response">>
    ELSE <<"lock", "closure", "build", "send", "response">>

LastStep(t) == IF steps[t] = <<>> THEN "" ELSE steps[t][Len(steps[t])]

\* C15 (step ordering): the steps a call has taken are always a beginning of
\* lock, (exchange,) closure, build, send, response.  The request exists only
\* after the closure ran, it has its Authorization header before the build
\* callback is applied, the callback's payload is on it when it is sent, an
\* answer is read only after the send, and a call that ended at a failed step
\* took no later step.
C15_StepOrdering ==
  \A t \in Threads :
    /\ Len(steps[t]) <= Len(FullSteps(t))
    /\ steps[t] = SubSeq(FullSteps(t), 1, Len(steps[t]))
    /\ pc[t] \in {"idle", "lock"} => steps[t] = <<>> /\ req[t] = <<>>
    /\ pc[t] = "match" => LastStep(t) = "lock" /\ req[t] = <<>>
    /\ pc[t] = "get_token" => LastStep(t) = "exchange" /\ req[t] = <<>>
    /\ pc[t] = "closure" => LastStep(t) = "closure" /\ req[t] = <<>>
    /\ pc[t] = "built"
         => /\ LastStep(t) = "closure"
            /\ req[t] # <<>>
            /\ req[t][1].authorization # <<>>
            /\ req[t][1].payload = ""
    /\ pc[t] = "sending"
         => /\ LastStep(t) = "send"
            /\ req[t] # <<>>
            /\ req[t][1].authorization # <<>>
            /\ req[t][1].payload \in Payloads
            /\ resp[t] = <<>>
    /\ pc[t] = "done"
         => /\ req[t] = <<>>
            /\ result[t] # <<>>
            /\ \/ LastStep(t) = "response" /\ resp[t] # <<>> /\ resp[t][1].to = "domain"
               \/ /\ LastStep(t) = "exchange" /\ resp[t] # <<>> /\ resp[t][1].to = "token"
                  /\ ~IsOk(result[t][1])
               \/ /\ LastStep(t) = "closure" /\ resp[t] = <<>>
                  /\ result[t][1].tag = "InvalidBearerToken"
    /\ result[t] # <<>> => pc[t] = "done"

\* A request that has its header and its payload is being sent after a token
\* exchange.
C15_Witness ==
  \E t \in Threads :
    /\ pc[t] = "sending"
    /\ steps[t] = <<"lock", "exchange", "closure", "build", "send">>
    /\ req[t][1].payload = "json"

\* ------------------------------------------------------------------ C16
\* C16 (credential slot frame): the slot changes only at the step at which the
\* thread holding the mutex gets a successful answer to POST /token, and then
\* to the credential of that answer; the steps of a thread that runs its
\* closure, applies the build callback, sends, reads the domain answer or
\* returns leave the slot as it is, whatever the answer.
C16_SlotFrame ==
  /\ [][token' # token
          => \E t \in Threads :
               /\ pc[t] = "get_token" /\ lock = {t}
               /\ pc'[t] = "closure"
               /\ ~ExchangeFailed(resp'[t][1])
               /\ token' = ParseToken(resp'[t][1].body)]_vars
  /\ [][\A t \in Threads :
          (pc[t] \in {"closure", "built", "sending", "done"} /\ pc'[t] # pc[t])
            => token' = token]_vars

\* A domain request was rejected with status 300 and the credential it was
\* built with is still the cached one.
C16_Witness ==
  \E t \in Threads :
    /\ pc[t] = "done" /\ resp[t] # <<>>
    /\ resp[t][1].to = "domain" /\ resp[t][1].status = 300
    /\ token # <<>> /\ last_token = <<token[1].id_token>>

\* ------------------------------------------------------------------ C17
\* C17 (invalid credential): when the credential handed to the closure has an
\* id_token that no header value can hold, the call returns InvalidBearerToken
\* at that step, with no request built, the build callback not applied,
\* nothing sent, the mutex released and the cached credential left in place.
C17_InvalidBearerToken ==
  /\ [][\A t \in Threads :
          (pc[t] = "closure" /\ pc'[t] # "closure"
             /\ arg[t][1].id_token = BadIdToken)
            => /\ pc'[t] = "done"
               /\ result'[t] = <<Err("InvalidBearerToken", "", 0, <<>>)>>
               /\ req'[t] = <<>>
               /\ steps'[t] = steps[t]
               /\ t \notin lock'
               /\ token' = token /\ token = arg[t]]_vars
  /\ [](\A t \in Threads :
          /\ (pc[t] = "done" /\ result[t][1].tag = "InvalidBearerToken")
               => /\ Count(steps[t], "build") = 0
                  /\ Count(steps[t], "send") = 0
                  /\ token # <<>>
          /\ pc[t] \in {"built", "sending"}
               => req[t][1].authorization[2] # BadIdToken)

\* A call returned InvalidBearerToken and the credential is still cached.
C17_Witness ==
  \E t \in Threads :
    /\ pc[t] = "done" /\ result[t][1].tag = "InvalidBearerToken"
    /\ token # <<>> /\ token[1].id_token = BadIdToken

\* ------------------------------------------------------------------ C18
\* C18 (credential lifecycle): a new client has an empty slot, no thread in a
\* call and no POST /token in flight; a POST /token is only ever in flight for
\* a thread that entered with_token; while the slot is empty no closure has
\* seen a credential; a slot that holds a credential never becomes empty, and
\* when it changes it becomes the whole credential of a successful exchange.
C18_Lifecycle ==
  /\ token = <<>>
  /\ \A t \in Threads : pc[t] = "idle"
  /\ [](\A t \in Threads :
          /\ pc[t] = "get_token" => steps[t] = <<"lock", "exchange">>
          /\ token = <<>> => last_token = <<>> /\ pc[t] # "closure")
  /\ [][token # <<>> => token' # <<>>]_vars
  /\ [][token' # token
          => \E t \in Threads, b \in TokenBodies :
               /\ resp'[t] # <<>> /\ resp'[t][1].body = b
               /\ token' = ParseToken(b) /\ token' # <<>>]_vars

\* The slot holds another credential than the one a request still under way
\* was built with.
C18_Witness ==
  \E t \in Threads :
    /\ pc[t] = "built"
    /\ token # <<>>
    /\ req[t][1].authorization # <<"Bearer", token[1].id_token>>

\* ------------------------------------------------------------------ C19
\* The answers of the transport that the progress of a call is checked with:
\* one of each way a call can end.
FairTokenAnswers ==
  {NetErr("token")}
    \cup {[to |-> "token", sent |-> TRUE, status |-> 200, body |-> b] :
            b \in {TokenJson("abc", "00:14"), TokenJson("abc", "00:16"),
                   TokenJson(BadIdToken, "00:16")}}
    \cup {[to |-> "token", sent |-> TRUE, status |-> 300, body |-> <<"<html>">>]}

FairDomainAnswers ==
  {NetErr("domain")}
    \cup {[to |-> "domain", sent |-> TRUE, status |-> 200, body |-> <<"price", "9.5">>],
          [to |-> "domain", sent |-> TRUE, status |-> 300, body |-> <<"<html>">>]}

\* What the scheduler and the transport give: a thread that can take its next
\* step takes it, a thread waiting for a mutex that stays free gets it, and
\* every send is answered.  Nothing makes a caller call again, and
\* std::sync::Mutex does not say which of several waiters gets the mutex.
Fairness ==
  \A t \in Threads :
    /\ WF_vars(Lock(t))
    /\ WF_vars(MatchCached(t))
    /\ WF_vars(MatchRefresh(t))
    /\ WF_vars(\E r \in FairTokenAnswers : GetTokenRespond(t, r))
    /\ WF_vars(Closure(t))
    /\ WF_vars(\E f \in Payloads : Send(t, f))
    /\ WF_vars(\E r \in FairDomainAnswers : Respond(t, r))

NextFair ==
  \/ \E t \in Threads, m \in Methods, p \in Paths : Call(t, "request", m, p)
  \/ \E t \in Threads : Lock(t)
  \/ \E t \in Threads : MatchCached(t)
  \/ \E t \in Threads : MatchRefresh(t)
  \/ \E t \in Threads, r \in FairTokenAnswers : GetTokenRespond(t, r)
  \/ \E t \in Threads : Closure(t)
  \/ \E t \in Threads, f \in Payloads : Send(t, f)
  \/ \E t \in Threads, r \in FairDomainAnswers : Respond(t, r)
  \/ \E t \in Threads : Return(t)
  \/ Tick

SpecFair == Init /\ [][NextFair]_vars /\ Fairness

\* Every with_token invocation has released the mutex when it has returned.
LockReleased ==
  \A t \in Threads : pc[t] \in {"idle", "lock", "built", "sending", "done"} => t \notin lock

\* C19 as stated: the mutex is released on every return, and every call of
\* every thread eventually returns (no thread waits for the mutex for ever).
C19_Progress ==
  /\ []LockReleased
  /\ \A t \in Threads : (pc[t] = "lock") ~> (pc[t] = "done")

\* C19 (lock release and progress), as the code has it: the mutex is released
\* on every return; a thread that holds it eventually returns from its call;
\* the mutex is free again and again, so no thread is kept waiting by a holder
\* that never lets go; and a thread waiting for it returns from its call
\* unless the other threads keep taking the mutex for ever.
C19_ReleaseAndProgress ==
  /\ []LockReleased
  /\ \A t \in Threads : (pc[t] \in {"match", "get_token", "closure", "built", "sending"})
                          ~> (pc[t] = "done")
  /\ []<>(lock = {})
  /\ \A t \in Threads :
       (pc[t] = "lock") ~> (pc[t] = "done" \/ \E u \in Threads \ {t} : u \in lock)

\* A thread has returned an error from with_token and the other, which was
\* waiting, holds the mutex.
C19_Witness ==
  \E t, u \in Threads :
    /\ pc[t] = "done" /\ ~IsOk(result[t][1]) /\ Count(steps[t], "build") = 0
    /\ pc[u] = "match" /\ lock = {u}

\* ------------------------------------------------------------------ C20
\* A run in which every thread calls request once, on a client whose slot is
\* empty or holds a stale credential, while the token endpoint answers every
\* exchange with a credential that expires at 00:16 and the clock stays at or
\* before 00:01, the last minute at which that credential is used as it is.
StaleToken == [id_token |-> "xyz", token_type |-> "Bearer", expires_on |-> 14]

LongLivedAnswers ==
  {[to |-> "token", sent |-> TRUE, status |-> 200, body |-> TokenJson(id, "00:16")] :
     id \in IdTokens}

RunEnd == ParseInstant("00:16") - SkewMinutes

InitStampede ==
  /\ now = 0
  /\ \/ token = <<>> /\ last_token = <<>>
     \/ token = <<StaleToken>> /\ last_token = <<StaleToken.id_token>>
  /\ lock = {}
  /\ pc = [t \in Threads |-> "idle"]
  /\ op = [t \in Threads |-> NoOp]
  /\ arg = [t \in Threads |-> <<>>]
  /\ req = [t \in Threads |-> <<>>]
  /\ resp = [t \in Threads |-> <<>>]
  /\ result = [t \in Threads |-> <<>>]
  /\ steps = [t \in Threads |-> <<>>]

TickWithin == now < RunEnd /\ Tick

NextStampede ==
  \/ \E t \in Threads, m \in Methods, p \in Paths : Call(t, "request", m, p)
  \/ \E t \in Threads : Lock(t)
  \/ \E t \in Threads : MatchCached(t)
  \/ \E t \in Threads : MatchRefresh(t)
  \/ \E t \in Threads, r \in LongLivedAnswers : GetTokenRespond(t, r)
  \/ \E t \in Threads : Closure(t)
  \/ \E t \in Threads, f \in Payloads : Send(t, f)
  \/ \E t \in Threads, r \in Responses("domain", DomainBodies) : Respond(t, r)
  \/ TickWithin

SpecStampede == InitStampede /\ [][NextStampede]_vars

Refreshers == {t \in Threads : Exchanges(t) > 0}

\* C20 (no refresh stampede): in such a run no thread exchanges twice, at most
\* one thread exchanges at all, exactly one has done so once any thread has a
\* credential in hand, and every domain request built or sent carries the
\* id_token of that one exchange, which is the one in the slot.
C20_NoStampede ==
  /\ \A t \in Threads : Exchanges(t) <= 1
  /\ Cardinality(Refreshers) <= 1
  /\ (\E t \in Threads : pc[t] \in {"closure", "built", "sending"} \/ Count(steps[t], "closure") > 0)
       => Cardinality(Refreshers) = 1
  /\ \A t \in Threads :
       pc[t] \in {"built", "sending"}
         => /\ token # <<>> /\ token[1].expires_on = 16
            /\ token[1].id_token \in IdTokens
            /\ req[t][1].authorization = <<"Bearer", token[1].id_token>>

\* All threads have a request under way at the last minute of the run, and
\* one exchange served them all.
C20_Witness ==
  /\ \A t \in Threads : pc[t] = "sending"
  /\ Cardinality(Refreshers) = 1
  /\ \A t, u \in Threads : req[t][1].authorization = req[u][1].authorization
  /\ now = RunEnd

====
